---- MODULE Spec2Model ----
(***************************************************************************)
(* The vesting vault of src/vesting_vault/lib.rs (ink! contract            *)
(* VestingVault) as a state machine: one action per contract message, the  *)
(* environment's block timestamp as `now`, and the events a call emits as  *)
(* `emitted`.  A call that returns Err or traps leaves the storage as it   *)
(* was and emits nothing (the host reverts it).  Spec runs the vault with  *)
(* all its inputs; SpecLog runs it with the chain's event log recorded;    *)
(* SpecHash applies the message hash to pairs of messages.                 *)
(*                                                                         *)
(* Timestamp is u64 and Balance is u128 in the source.  The widths are     *)
(* scaled down to TimestampBits and BalanceBits so that the overflow of    *)
(* `current_time + lock_secs` and of `total_locked += amount` is reachable *)
(* with small numbers.  What an overflowing `+` does depends on the build  *)
(* (overflow-checks on: the call traps; off: the value wraps), so the      *)
(* build is a choice made in Init.                                         *)
(***************************************************************************)
EXTENDS Integers, Sequences, FiniteSets, TLC

\* ------------------------------------------------------------------ bounds
TimestampBits == 17
BalanceBits == 12
\* The number of events the recorded event log holds.
MaxEvents == 4

\* --------------------------------------------------------------- constants
MinLockSecs == 60000

RECURSIVE Pow2(_)
Pow2(n) == IF n = 0 THEN 1 ELSE 2 * Pow2(n - 1)

TimestampModulus == Pow2(TimestampBits)
BalanceModulus == Pow2(BalanceBits)
MaxTimestamp == TimestampModulus - 1
MaxBalance == BalanceModulus - 1

\* AccountId32::new([1u8; 32]), [2u8; 32], [3u8; 32] of the tests: an account
\* is named by the byte its 32-byte id repeats.
AdminAccount == 1
Alice == 2
Bob == 3
Accounts == {AdminAccount, Alice, Bob}
\* The accounts that call deposit_with_asset.
Depositors == {Alice, Bob}

\* The assets a caller may pass: AssetId(1) (DOT, supported) and AssetId(999),
\* the unsupported asset of test_asset_support.
AssetIds == {1, 999}

\* Amounts a caller may pass: zero and a quarter of the Balance range (the
\* fourth deposit overflows total_locked).
Amounts == {0, BalanceModulus \div 4}

\* lock_secs a caller may pass: the tests' 120 and 30000, the minimum, and the
\* largest value of the type.
LockSecs == {120, 30000, MinLockSecs, MaxTimestamp}

Parachains == {2000}

\* Steps by which the block timestamp advances.
TimeSteps == {MinLockSecs}

VARIABLES
    deposits,           \* Mapping<AccountId, DepositInfo>
    emergency_mode,     \* bool
    admin,              \* AccountId
    total_locked,       \* Balance
    supported_assets,   \* Vec<AssetId>
    now,                \* self.env().block_timestamp()
    overflow_checks,    \* the build: TRUE when `+`/`-` trap on overflow
    emitted,            \* the events the last call emitted, in order
    last,               \* the last call: message, caller, arguments, result
    returned,           \* the value inside the Ok(..) the last call returned
    handoff,            \* the caller's record as execute_xcm_transfer found it
    events,             \* the event log of the chain, while it is recorded
    observer,           \* TRUE when the event log is recorded (MaxEvents long)
    digest              \* two messages and their hashes (calculate_xcm_hash)

vars == <<deposits, emergency_mode, admin, total_locked, supported_assets,
          now, overflow_checks, emitted, last, returned, handoff, events,
          observer, digest>>

storage == <<deposits, emergency_mode, admin, total_locked, supported_assets>>

\* ------------------------------------------------------------ data types
DepositInfo(amount, unlock_timestamp, asset_id, destination_parachain) ==
    [amount |-> amount, unlock_timestamp |-> unlock_timestamp,
     asset_id |-> asset_id, destination_parachain |-> destination_parachain]

Deposited(user, amount, asset_id, unlock_time) ==
    [event |-> "Deposited", user |-> user, amount |-> amount,
     asset_id |-> asset_id, unlock_time |-> unlock_time]

ClaimInitiated(user, amount, destination_parachain, xcm_hash) ==
    [event |-> "ClaimInitiated", user |-> user, amount |-> amount,
     destination_parachain |-> destination_parachain, xcm_hash |-> xcm_hash]

EmergencyTriggered(timestamp, by) ==
    [event |-> "EmergencyTriggered", timestamp |-> timestamp, admin |-> by]

XCMExecuted(user, amount, destination, success) ==
    [event |-> "XCMExecuted", user |-> user, amount |-> amount,
     destination |-> destination, success |-> success]

\* VestingError, and the traps of the assertions and of checked arithmetic.
VestingError == {"InsufficientBalance", "TokensStillLocked", "NoDepositFound",
                 "UnauthorizedAccess", "AssetNotSupported", "XCMExecutionFailed"}
Traps == {"PanicOverflow", "PanicMinLock", "PanicZeroAmount"}

Call(op, caller, asset_id, amount, lock_secs, destination_parachain, result) ==
    [op |-> op, caller |-> caller, asset_id |-> asset_id, amount |-> amount,
     lock_secs |-> lock_secs, destination_parachain |-> destination_parachain,
     result |-> result]

NoCall == Call("none", 0, 0, 0, 0, 0, "Ok")

\* The () of Result<(), VestingError>.
Unit == <<>>

\* No message hashed yet.
NoDigest == [a |-> <<>>, b |-> <<>>, da |-> <<>>, db |-> <<>>]

\* ------------------------------------------------------ Mapping and Vec
MappingGet(m, k) == IF k \in DOMAIN m THEN <<m[k]>> ELSE <<>>

\* Variant: insert drops the entries of the other keys.
MappingInsertAlone(m, k, v) == [a \in {k} |-> v]
MappingInsert(m, k, v) ==
    [a \in DOMAIN m \cup {k} |-> IF a = k THEN v ELSE m[a]]

\* Variant: remove leaves the entry in place.
MappingRemoveKept(m, k) == m
MappingRemove(m, k) == [a \in DOMAIN m \ {k} |-> m[a]]

VecContains(v, x) == \E i \in 1..Len(v) : v[i] = x

\* ------------------------------------------------------------ arithmetic
\* `+` and `-` on an unsigned integer of the given modulus: whether the exact
\* result leaves the range (a trap under overflow checks), and the wrapped
\* result (what is stored without them).
AddOverflows(a, b, modulus) == a + b >= modulus
SubOverflows(a, b) == a < b
WrappingAdd(a, b, modulus) == (a + b) % modulus
WrappingSub(a, b, modulus) == (a - b + modulus) % modulus

\* --------------------------------------------------- cross-chain message
RECURSIVE BitXor(_, _)
BitXor(a, b) ==
    IF a = 0 THEN b
    ELSE IF b = 0 THEN a
    ELSE ((a + b) % 2) + 2 * BitXor(a \div 2, b \div 2)

RECURSIVE to_le_bytes(_, _)
to_le_bytes(n, width) ==
    IF width = 0 THEN <<>> ELSE <<n % 256>> \o to_le_bytes(n \div 256, width - 1)

\* AccountId::encode: the 32 bytes of the id.
encode(account) == [i \in 1..32 |-> account]

\* Variant: the asset id is left out of the message.
build_xcm_message_no_asset(beneficiary, amount, destination_parachain, asset_id) ==
    encode(beneficiary) \o to_le_bytes(amount, 16)
        \o to_le_bytes(destination_parachain, 4)

build_xcm_message(beneficiary, amount, destination_parachain, asset_id) ==
    encode(beneficiary) \o to_le_bytes(amount, 16)
        \o to_le_bytes(destination_parachain, 4) \o to_le_bytes(asset_id, 4)

\* hash[i % 32] ^= byte over the message: slot j of the hash is the xor of
\* the bytes at positions j, j + 32, j + 64, ... (positions from 1 here).
RECURSIVE XorFold(_, _)
XorFold(message, i) ==
    IF i > Len(message) THEN 0
    ELSE BitXor(message[i], XorFold(message, i + 32))

calculate_xcm_hash(message) == [j \in 1..32 |-> XorFold(message, j)]

\* Variant: the transfer is made without its XCMExecuted event.
execute_xcm_transfer_silent(beneficiary, amount, destination_parachain, asset_id) ==
    <<"Ok", <<>>,
      calculate_xcm_hash(build_xcm_message(beneficiary, amount,
                                           destination_parachain, asset_id))>>

\* Returns <<result, events emitted, xcm_hash>>.
execute_xcm_transfer(beneficiary, amount, destination_parachain, asset_id) ==
    LET xcm_message == build_xcm_message(beneficiary, amount,
                                         destination_parachain, asset_id)
        xcm_hash == calculate_xcm_hash(xcm_message)
    IN  <<"Ok", <<XCMExecuted(beneficiary, amount, destination_parachain, TRUE)>>,
          xcm_hash>>

call_assets_precompile_transfer(from, amount, asset_id) == "Ok"

\* ------------------------------------------------------------------ Init
new(admin_account) ==
    /\ deposits = <<>>
    /\ emergency_mode = FALSE
    /\ admin = admin_account
    /\ total_locked = 0
    /\ supported_assets = <<1, 2>>
    /\ now = 0
    /\ overflow_checks \in BOOLEAN
    /\ emitted = <<>>
    /\ last = NoCall
    /\ returned = Unit
    /\ handoff = "none"
    /\ events = <<>>
    /\ digest = NoDigest

Init ==
    /\ new(AdminAccount)
    /\ observer = FALSE

\* ------------------------------------------------------------ the host
\* The writes and events of a call take effect only when the message returns
\* Ok: every Err is returned before the first write, and a trap reverts the
\* call.
\* Variant: a deposit refused for its asset keeps its writes.
CommitsDespiteAssetError(result) == result \in {"Ok", "AssetNotSupported"}
Commits(result) == result = "Ok"

\* The host appends the events of a committed call to the chain's event log.
\* While the log is recorded it holds MaxEvents events: a call that would
\* take it past that is not taken.
EmitEvents(evs) ==
    /\ emitted' = evs
    /\ IF observer
       THEN /\ Len(events) + Len(evs) <= MaxEvents
            /\ events' = events \o evs
       ELSE events' = events

\* ------------------------------------------------------- deposit_with_asset
MinLockOk(lock_secs) == lock_secs >= MinLockSecs

\* Variant: no check of the amount.
AmountOkAlways(amount) == TRUE
AmountOk(amount) == amount > 0

DepositResult(caller, asset_id, amount, lock_secs) ==
    IF overflow_checks /\ AddOverflows(now, lock_secs, TimestampModulus)
    THEN "PanicOverflow"
    ELSE IF ~VecContains(supported_assets, asset_id) THEN "AssetNotSupported"
    ELSE IF ~MinLockOk(lock_secs) THEN "PanicMinLock"
    ELSE IF ~AmountOk(amount) THEN "PanicZeroAmount"
    ELSE IF call_assets_precompile_transfer(caller, amount, asset_id) # "Ok"
    THEN call_assets_precompile_transfer(caller, amount, asset_id)
    ELSE IF overflow_checks /\ AddOverflows(total_locked, amount, BalanceModulus)
    THEN "PanicOverflow"
    ELSE "Ok"

deposit_with_asset(caller, asset_id, amount, lock_secs, destination_parachain) ==
    LET current_time == now
        unlock_time == WrappingAdd(current_time, lock_secs, TimestampModulus)
        result == DepositResult(caller, asset_id, amount, lock_secs)
        info == DepositInfo(amount, unlock_time, asset_id, destination_parachain)
    IN  /\ last' = Call("deposit_with_asset", caller, asset_id, amount, lock_secs,
                        destination_parachain, result)
        /\ IF Commits(result)
           THEN /\ deposits' = MappingInsert(deposits, caller, info)
                /\ total_locked' = WrappingAdd(total_locked, amount, BalanceModulus)
                /\ EmitEvents(<<Deposited(caller, amount, asset_id, unlock_time)>>)
           ELSE /\ EmitEvents(<<>>)
                /\ UNCHANGED <<deposits, total_locked>>
        /\ returned' = Unit
        /\ handoff' = "none"
        /\ UNCHANGED <<emergency_mode, admin, supported_assets, now, overflow_checks,
                       observer, digest>>

\* -------------------------------------------------------- claim_cross_chain
\* Variants: the lock test without the emergency override, with the
\* comparison reversed, and still locked at the unlock time itself.
StillLockedAtUnlock(info, current_time) ==
    current_time <= info.unlock_timestamp /\ ~emergency_mode
StillLockedIgnoringEmergency(info, current_time) ==
    current_time < info.unlock_timestamp
StillLockedReversed(info, current_time) ==
    current_time > info.unlock_timestamp /\ ~emergency_mode
StillLocked(info, current_time) ==
    current_time < info.unlock_timestamp /\ ~emergency_mode

ClaimResult(caller) ==
    LET found == MappingGet(deposits, caller)
    IN  IF found = <<>> THEN "NoDepositFound"
        ELSE LET info == found[1]
                 xcm == execute_xcm_transfer(caller, info.amount,
                            info.destination_parachain, info.asset_id)
             IN  IF StillLocked(info, now) THEN "TokensStillLocked"
                 ELSE IF xcm[1] # "Ok" THEN xcm[1]
                 ELSE IF overflow_checks /\ SubOverflows(total_locked, info.amount)
                 THEN "PanicOverflow"
                 ELSE "Ok"

claim_cross_chain(caller) ==
    LET result == ClaimResult(caller)
    IN  /\ last' = Call("claim_cross_chain", caller, 0, 0, 0, 0, result)
        /\ IF Commits(result)
           THEN LET info == deposits[caller]
                    \* execute_xcm_transfer runs on the ledger as the call found
                    \* it: no write comes before it.
                    ledger_at_handoff == deposits
                    xcm == execute_xcm_transfer(caller, info.amount,
                               info.destination_parachain, info.asset_id)
                IN  /\ handoff' = IF caller \in DOMAIN ledger_at_handoff
                                  THEN "record_present" ELSE "record_absent"
                    /\ total_locked' =
                           WrappingSub(total_locked, info.amount, BalanceModulus)
                    /\ deposits' = MappingRemove(ledger_at_handoff, caller)
                    /\ EmitEvents(xcm[2] \o
                           <<ClaimInitiated(caller, info.amount,
                                            info.destination_parachain, xcm[3])>>)
           ELSE /\ EmitEvents(<<>>)
                /\ handoff' = "none"
                /\ UNCHANGED <<deposits, total_locked>>
        /\ returned' = Unit
        /\ UNCHANGED <<emergency_mode, admin, supported_assets, now, overflow_checks,
                       observer, digest>>

\* --------------------------------------------------------- emergency_unlock
\* Variant: no caller check.
NotAdminNever(caller) == FALSE
NotAdmin(caller) == caller # admin

\* Variant: the call flips the flag instead of setting it.
EmergencyModeToggled == ~emergency_mode
EmergencyModeSet == TRUE

\* Variant: a successful emergency_unlock also registers a further asset.
emergency_unlock_adds_asset(caller) ==
    /\ IF NotAdmin(caller)
       THEN /\ last' = Call("emergency_unlock", caller, 0, 0, 0, 0,
                            "UnauthorizedAccess")
            /\ EmitEvents(<<>>)
            /\ UNCHANGED <<emergency_mode, supported_assets>>
       ELSE /\ last' = Call("emergency_unlock", caller, 0, 0, 0, 0, "Ok")
            /\ emergency_mode' = EmergencyModeSet
            /\ supported_assets' = <<1, 2, 999>>
            /\ EmitEvents(<<EmergencyTriggered(now, admin)>>)
    /\ returned' = Unit
    /\ handoff' = "none"
    /\ UNCHANGED <<deposits, admin, total_locked, now, overflow_checks, observer,
                   digest>>

emergency_unlock(caller) ==
    /\ IF NotAdmin(caller)
       THEN /\ last' = Call("emergency_unlock", caller, 0, 0, 0, 0,
                            "UnauthorizedAccess")
            /\ EmitEvents(<<>>)
            /\ UNCHANGED emergency_mode
       ELSE /\ last' = Call("emergency_unlock", caller, 0, 0, 0, 0, "Ok")
            /\ emergency_mode' = EmergencyModeSet
            /\ EmitEvents(<<EmergencyTriggered(now, admin)>>)
    /\ returned' = Unit
    /\ handoff' = "none"
    /\ UNCHANGED <<deposits, admin, total_locked, supported_assets, now,
                   overflow_checks, observer, digest>>

\* ------------------------------------------------------------- read queries
get_deposit_info(account) == MappingGet(deposits, account)
get_total_locked == total_locked
is_emergency_mode == emergency_mode
get_supported_assets == supported_assets

\* ------------------------------------------------------------- environment
\* The block timestamp advances between calls.
AdvanceTime(d) ==
    /\ now + d <= MaxTimestamp
    /\ now' = now + d
    /\ last' = NoCall
    /\ emitted' = <<>>
    /\ returned' = Unit
    /\ handoff' = "none"
    /\ UNCHANGED <<deposits, emergency_mode, admin, total_locked, supported_assets,
                   overflow_checks, events, observer, digest>>

Next ==
    \/ \E caller \in Depositors, asset_id \in AssetIds, amount \in Amounts,
          lock_secs \in LockSecs, destination_parachain \in Parachains :
          deposit_with_asset(caller, asset_id, amount, lock_secs,
                             destination_parachain)
    \/ \E caller \in Accounts : claim_cross_chain(caller)
    \/ \E caller \in Accounts : emergency_unlock(caller)
    \/ \E d \in TimeSteps : AdvanceTime(d)

Spec == Init /\ [][Next]_vars

\* ------------------------------------------------------ the message hash
\* The messages hashed: every account, amounts that differ in their low and
\* in their second byte, two destinations, three assets.
HashInputs ==
    [beneficiary : Accounts, amount : {0, 1, 256},
     destination_parachain : {1000, 2000}, asset_id : {1, 2, 999}]

\* The xcm_hash execute_xcm_transfer computes for a message.
Digest(m) ==
    calculate_xcm_hash(build_xcm_message(m.beneficiary, m.amount,
                                         m.destination_parachain, m.asset_id))

\* Two messages are drawn and hashed, once.
HashPair(a, b) ==
    /\ digest = NoDigest
    /\ digest' = [a |-> a, b |-> b, da |-> Digest(a), db |-> Digest(b)]
    /\ UNCHANGED <<deposits, emergency_mode, admin, total_locked, supported_assets,
                   now, overflow_checks, emitted, last, returned, handoff, events,
                   observer>>

InitHash ==
    /\ new(AdminAccount)
    /\ observer = FALSE

NextHash == \E a \in HashInputs, b \in HashInputs : HashPair(a, b)

SpecHash == InitHash /\ [][NextHash]_vars

\* --------------------------------------------- the vault with its event log
\* The same vault with the chain's event log recorded, and the deposits
\* at the minimum lock.
InitLog ==
    /\ new(AdminAccount)
    /\ observer = TRUE

NextLog ==
    \/ \E caller \in Depositors, asset_id \in AssetIds, amount \in Amounts,
          destination_parachain \in Parachains :
          deposit_with_asset(caller, asset_id, amount, MinLockSecs,
                             destination_parachain)
    \/ \E caller \in Accounts : claim_cross_chain(caller)
    \/ \E caller \in Accounts : emergency_unlock(caller)
    \/ \E d \in TimeSteps : AdvanceTime(d)

SpecLog == InitLog /\ [][NextLog]_vars

\* =================================================================== claims
RECURSIVE SumAmounts(_, _)
SumAmounts(m, keys) ==
    IF keys = {} THEN 0
    ELSE LET k == CHOOSE x \in keys : TRUE
         IN  m[k].amount + SumAmounts(m, keys \ {k})

\* The sum of the amounts of the records in the ledger.
SumLocked == SumAmounts(deposits, DOMAIN deposits)

HasRecord(u) == u \in DOMAIN deposits

\* C1: in every reachable state total_locked equals the sum of the amounts of
\* the records in the ledger, also when an account deposits again while it
\* still has a record.
C1_TotalLockedIsSum == total_locked = SumLocked

\* C2: at-most-once release.  A successful claim_cross_chain by U removes U's
\* record; a claim by U while U has no record fails with NoDepositFound; and a
\* record for U appears only by a successful deposit_with_asset by U.  So
\* between two successful claims by U there is a successful deposit by U.
C2_AtMostOnceRelease ==
    [][\A u \in Accounts :
         /\ (last'.op = "claim_cross_chain" /\ last'.caller = u
                 /\ last'.result = "Ok")
               => (HasRecord(u) /\ u \notin DOMAIN deposits')
         /\ (last'.op = "claim_cross_chain" /\ last'.caller = u /\ ~HasRecord(u))
               => (last'.result = "NoDepositFound" /\ u \notin DOMAIN deposits')
         /\ (~HasRecord(u) /\ u \in DOMAIN deposits')
               => (last'.op = "deposit_with_asset" /\ last'.caller = u
                       /\ last'.result = "Ok")]_vars

\* C2 witness: Alice's claim has just succeeded and her record is gone.
C2_Witness ==
    /\ last.op = "claim_cross_chain" /\ last.caller = Alice /\ last.result = "Ok"
    /\ ~HasRecord(Alice)

\* C3: no early release.  A claim_cross_chain by an account whose record has
\* unlock_timestamp greater than the current time, made while emergency_mode
\* is false, fails with TokensStillLocked and releases nothing.
C3_NoEarlyRelease ==
    [][\A u \in Accounts :
         (/\ last'.op = "claim_cross_chain" /\ last'.caller = u
          /\ HasRecord(u)
          /\ now < deposits[u].unlock_timestamp
          /\ ~emergency_mode)
            => (/\ last'.result = "TokensStillLocked"
                /\ UNCHANGED <<deposits, total_locked>>
                /\ emitted' = <<>>)]_vars

\* C3 witness: a claim was refused as still locked, before the unlock time and
\* outside emergency mode.
C3_Witness ==
    /\ last.op = "claim_cross_chain" /\ last.result = "TokensStillLocked"
    /\ HasRecord(last.caller)
    /\ now < deposits[last.caller].unlock_timestamp
    /\ ~emergency_mode

\* C4: emergency_unlock succeeds only for the admin; for any other caller it
\* fails with UnauthorizedAccess, leaves emergency_mode, the ledger and
\* total_locked unchanged and emits no event.
C4_OnlyAdminUnlocks ==
    [][last'.op = "emergency_unlock"
         => /\ last'.result = "Ok" => last'.caller = admin
            /\ last'.caller # admin
                 => (/\ last'.result = "UnauthorizedAccess"
                     /\ UNCHANGED <<emergency_mode, deposits, total_locked>>
                     /\ emitted' = <<>>)]_vars

\* C4 witness: a non-admin called emergency_unlock while a record was locked,
\* and the vault is still not in emergency mode.
C4_Witness ==
    /\ last.op = "emergency_unlock" /\ last.caller = Bob
    /\ last.result = "UnauthorizedAccess"
    /\ ~emergency_mode
    /\ HasRecord(Alice)

\* C5: emergency_mode is false after construction and, once true, stays true
\* through every later call.
C5_EmergencyMonotonic ==
    /\ ~emergency_mode
    /\ [][emergency_mode => emergency_mode']_vars

\* C5 witness: emergency mode is still on after a later deposit went through.
C5_Witness ==
    /\ emergency_mode
    /\ last.op = "deposit_with_asset" /\ last.result = "Ok"

\* C6: once emergency_mode is true, a claim_cross_chain by any account that has
\* a record succeeds at any current time, before the unlock time included, and
\* removes the record.
C6_EmergencyReleases ==
    [][\A u \in Accounts :
         (/\ last'.op = "claim_cross_chain" /\ last'.caller = u
          /\ HasRecord(u)
          /\ emergency_mode)
            => (/\ last'.result = "Ok"
                /\ u \notin DOMAIN deposits')]_vars

\* C6 witness: a claim succeeded in emergency mode at time 0, when every
\* record is still before its unlock time.
C6_Witness ==
    /\ emergency_mode
    /\ now = 0
    /\ last.op = "claim_cross_chain" /\ last.result = "Ok"

\* C7: a deposit_with_asset whose asset_id is not in supported_assets fails
\* with AssetNotSupported for every amount, lock_secs and destination, and
\* leaves total_locked and the ledger unchanged.
C7_UnsupportedAssetRejected ==
    [][(/\ last'.op = "deposit_with_asset"
        /\ ~VecContains(supported_assets, last'.asset_id))
          => (/\ last'.result = "AssetNotSupported"
              /\ UNCHANGED <<deposits, total_locked>>)]_vars

\* C8: a deposit with lock_secs below 60000 is rejected and changes neither
\* the ledger nor total_locked, and the record a successful deposit creates
\* has unlock_timestamp at least 60000 greater than the time of the deposit.
C8_MinLockEnforced ==
    [][last'.op = "deposit_with_asset"
         => /\ last'.lock_secs < MinLockSecs
                 => (/\ last'.result # "Ok"
                     /\ UNCHANGED <<deposits, total_locked>>)
            /\ last'.result = "Ok"
                 => deposits'[last'.caller].unlock_timestamp >= now + MinLockSecs]_vars

\* C9: the documented deposit-wait-claim cycle with lock durations 120 and
\* 30000.  On an empty vault the deposit of a positive amount of a supported
\* asset succeeds and total_locked equals the amount; a claim before the
\* unlock time fails with TokensStillLocked; a claim at or after it succeeds,
\* removes the record and gives back its amount.
C9_DocumentedCycle ==
    [][/\ (/\ last'.op = "deposit_with_asset"
           /\ last'.lock_secs \in {120, 30000}
           /\ VecContains(supported_assets, last'.asset_id)
           /\ last'.amount > 0
           /\ now + last'.lock_secs <= MaxTimestamp
           /\ deposits = <<>> /\ total_locked = 0)
             => (/\ last'.result = "Ok"
                 /\ total_locked' = last'.amount)
       /\ (/\ last'.op = "claim_cross_chain"
           /\ HasRecord(last'.caller)
           /\ ~emergency_mode)
             => IF now < deposits[last'.caller].unlock_timestamp
                THEN last'.result = "TokensStillLocked"
                ELSE /\ last'.result = "Ok"
                     /\ total_locked' =
                            total_locked - deposits[last'.caller].amount
                     /\ MappingGet(deposits', last'.caller) = <<>>]_vars

\* C10: every successful deposit_with_asset(asset_id, amount, lock_secs,
\* destination) by U at time t increases total_locked by exactly amount and
\* leaves for U the record {amount, t + lock_secs, asset_id, destination},
\* whether or not U already had a record.
C10_DepositEffect ==
    [][(last'.op = "deposit_with_asset" /\ last'.result = "Ok")
         => /\ total_locked' = total_locked + last'.amount
            /\ last'.caller \in DOMAIN deposits'
            /\ deposits'[last'.caller] =
                   DepositInfo(last'.amount, now + last'.lock_secs,
                               last'.asset_id, last'.destination_parachain)]_vars

\* C11: every call that returns an error or aborts leaves the ledger,
\* total_locked, emergency_mode, admin and supported_assets as they were and
\* emits no event; a failed claim leaves the caller's record intact.
C11_FailuresChangeNothing ==
    [][(last'.op # "none" /\ last'.result # "Ok")
         => (/\ UNCHANGED storage
             /\ emitted' = <<>>)]_vars

\* C11 witness: a deposit of amount 0 by an account that holds a record was
\* refused, and the record and total_locked are still there.
C11_Witness ==
    /\ last.op = "deposit_with_asset" /\ last.result = "PanicZeroAmount"
    /\ HasRecord(last.caller)
    /\ total_locked > 0

\* The events of the given kind among evs.
EventsOf(evs, kind) == {i \in 1..Len(evs) : evs[i].event = kind}

\* C12: the event log is append-only and every committed call appends its
\* events exactly once, in the order the calls commit: one Deposited per
\* successful deposit, one ClaimInitiated and one XCMExecuted per successful
\* claim, one EmergencyTriggered per successful emergency_unlock, nothing for
\* a failed call, each with the values of its transition (ClaimInitiated with
\* the amount and destination of the removed record).
C12_EventsExactlyOnce ==
    [][/\ events' = events \o emitted'
       /\ (last'.op # "none" /\ last'.result # "Ok") => emitted' = <<>>
       /\ (last'.op = "deposit_with_asset" /\ last'.result = "Ok")
            => /\ Len(emitted') = 1
               /\ emitted'[1].event = "Deposited"
               /\ emitted'[1].user = last'.caller
               /\ emitted'[1].amount = last'.amount
               /\ emitted'[1].asset_id = last'.asset_id
               /\ emitted'[1].unlock_time = deposits'[last'.caller].unlock_timestamp
       /\ (last'.op = "claim_cross_chain" /\ last'.result = "Ok")
            => /\ Len(emitted') = 2
               /\ Cardinality(EventsOf(emitted', "ClaimInitiated")) = 1
               /\ Cardinality(EventsOf(emitted', "XCMExecuted")) = 1
               /\ \A i \in EventsOf(emitted', "ClaimInitiated") :
                    /\ emitted'[i].user = last'.caller
                    /\ emitted'[i].amount = deposits[last'.caller].amount
                    /\ emitted'[i].destination_parachain =
                           deposits[last'.caller].destination_parachain
               /\ \A i \in EventsOf(emitted', "XCMExecuted") :
                    /\ emitted'[i].user = last'.caller
                    /\ emitted'[i].amount = deposits[last'.caller].amount
                    /\ emitted'[i].destination =
                           deposits[last'.caller].destination_parachain
       /\ (last'.op = "emergency_unlock" /\ last'.result = "Ok")
            => /\ Len(emitted') = 1
               /\ emitted'[1].event = "EmergencyTriggered"
               /\ emitted'[1].timestamp = now
               /\ emitted'[1].admin = admin]_vars

\* C12 witness: the log holds a deposit, an emergency unlock and the two
\* events of the claim that followed, in that order.
C12_Witness ==
    /\ Len(events) = 4
    /\ events[1].event = "Deposited"
    /\ events[2].event = "EmergencyTriggered"
    /\ {events[3].event, events[4].event} = {"XCMExecuted", "ClaimInitiated"}
    /\ last.op = "claim_cross_chain" /\ last.result = "Ok"

\* C13: within a claim the ledger mutation comes strictly before the handoff:
\* when the cross-chain transfer is executed and XCMExecuted is emitted the
\* caller's record is already absent from the ledger, and ClaimInitiated is
\* emitted before the executed event.
C13_LedgerBeforeHandoff ==
    (last.op = "claim_cross_chain" /\ last.result = "Ok")
      => /\ handoff = "record_absent"
         /\ \E i, j \in 1..Len(emitted) :
              /\ i < j
              /\ emitted[i].event = "ClaimInitiated"
              /\ emitted[j].event = "XCMExecuted"

\* C14: a successful claim returns a receipt containing the message digest,
\* equal to the xcm_hash of the ClaimInitiated event of the same claim.
C14_ReceiptCarriesDigest ==
    (last.op = "claim_cross_chain" /\ last.result = "Ok")
      => \E i \in EventsOf(emitted, "ClaimInitiated") :
            returned = <<emitted[i].xcm_hash>>

\* C15: emergency_unlock called by the admin when emergency_mode is already
\* true succeeds, leaves emergency_mode, the ledger, total_locked, admin and
\* supported_assets unchanged, and still emits one EmergencyTriggered event.
C15_EmergencyIdempotent ==
    [][(/\ last'.op = "emergency_unlock" /\ last'.caller = admin
        /\ emergency_mode)
          => (/\ last'.result = "Ok"
              /\ UNCHANGED storage
              /\ Len(emitted') = 1
              /\ emitted'[1].event = "EmergencyTriggered"
              /\ events' = Append(events, emitted'[1]))]_vars

\* C15 witness: the log holds the EmergencyTriggered events of two successful
\* calls.
C15_Witness ==
    /\ Cardinality(EventsOf(events, "EmergencyTriggered")) >= 2
    /\ emergency_mode
    /\ last.op = "emergency_unlock" /\ last.result = "Ok"

\* C16: after any sequence of calls admin is the constructor's argument and
\* supported_assets is exactly {AssetId(1), AssetId(2)}.
C16_AdminAndAssetsFixed ==
    /\ admin = AdminAccount
    /\ {supported_assets[i] : i \in 1..Len(supported_assets)} = {1, 2}

\* C16 witness: deposits, an emergency unlock and a claim have gone through.
C16_Witness ==
    /\ emergency_mode
    /\ HasRecord(Bob) /\ ~HasRecord(Alice)
    /\ last.op = "claim_cross_chain" /\ last.caller = Alice /\ last.result = "Ok"

\* The number of fields in which two messages differ.
FieldsDiffering(a, b) ==
    Cardinality({f \in {"beneficiary", "amount", "destination_parachain",
                        "asset_id"} : a[f] # b[f]})

\* C17: the digest is a function of (beneficiary, amount, destination_chain,
\* asset_id) alone: equal messages have equal digests, and two messages that
\* differ in a single field have different digests.
C17_DigestOfFields ==
    digest # NoDigest
      => /\ digest.a = digest.b => digest.da = digest.db
         /\ FieldsDiffering(digest.a, digest.b) = 1 => digest.da # digest.db

\* C17 witness: two messages that differ only in the amount, hashed to
\* different digests.
C17_Witness ==
    /\ digest # NoDigest
    /\ FieldsDiffering(digest.a, digest.b) = 1
    /\ digest.a.amount # digest.b.amount
    /\ digest.da # digest.db

\* C18: the deposit checks run in the order asset support, minimum lock,
\* positive amount, and the first failing one decides: an unsupported asset
\* reports AssetNotSupported whatever the lock and amount; a supported asset
\* with a too-short lock is refused for the lock whatever the amount; amount 0
\* with the first two checks passed is refused for the amount and stores
\* nothing.
C18_ValidationOrder ==
    [][last'.op = "deposit_with_asset"
         => IF ~VecContains(supported_assets, last'.asset_id)
            THEN last'.result = "AssetNotSupported"
            ELSE IF last'.lock_secs < MinLockSecs
            THEN last'.result = "PanicMinLock"
            ELSE last'.amount = 0
                   => (/\ last'.result = "PanicZeroAmount"
                       /\ UNCHANGED deposits)]_vars

\* C19: a claim by U at any time at or after the unlock_timestamp of U's
\* record, the unlock time itself included, succeeds and releases the record;
\* a claim refused as still locked leaves the record as it was, so it does not
\* prevent the later one.
C19_ClaimableFromUnlock ==
    [][\A u \in Accounts :
         (last'.op = "claim_cross_chain" /\ last'.caller = u /\ HasRecord(u))
            => /\ now >= deposits[u].unlock_timestamp
                    => (last'.result = "Ok" /\ u \notin DOMAIN deposits')
               /\ last'.result = "TokensStillLocked"
                    => deposits' = deposits]_vars

\* C19 witness: outside emergency mode, a claim succeeded at time 60000, the
\* unlock time of a record deposited at time 0 with the minimum lock.
C19_Witness ==
    /\ overflow_checks
    /\ ~emergency_mode
    /\ now = MinLockSecs
    /\ last.op = "claim_cross_chain" /\ last.result = "Ok"

\* C20: every record in the ledger has amount > 0 and an asset_id that is in
\* supported_assets.
C20_RecordsWellFormed ==
    \A u \in DOMAIN deposits :
        /\ deposits[u].amount > 0
        /\ VecContains(supported_assets, deposits[u].asset_id)

\* C20 witness: both depositors hold a record.
C20_Witness == HasRecord(Alice) /\ HasRecord(Bob)

\* The amount of the record a step overwrites: that of the caller's record
\* when the step is a successful deposit by an account that holds one.
OverwrittenByStep ==
    IF /\ last'.op = "deposit_with_asset" /\ last'.result = "Ok"
       /\ HasRecord(last'.caller)
    THEN deposits[last'.caller].amount
    ELSE 0

\* C21: in every reachable state total_locked is at least the sum of the
\* amounts of the records in the ledger, so total_locked -= amount in a claim
\* never underflows; the difference total_locked minus that sum never
\* decreases and is the total of the amounts of the records overwritten by a
\* later deposit of the same account: it is 0 after construction and every
\* step adds to it the amount of the record the step overwrites.
C21_TotalCoversLedger ==
    /\ total_locked - SumLocked = 0
    /\ [](total_locked >= SumLocked)
    /\ [][/\ (last'.op = "claim_cross_chain" /\ last'.result = "Ok")
               => total_locked >= deposits[last'.caller].amount
          /\ total_locked' - SumLocked' >= total_locked - SumLocked
          /\ total_locked' - SumLocked' =
                 (total_locked - SumLocked) + OverwrittenByStep]_vars

\* C22: account isolation.  A deposit_with_asset or claim_cross_chain by
\* caller U creates, replaces or removes only U's record, and emergency_unlock
\* changes no record: the record of every other account (amount,
\* unlock_timestamp, asset_id, destination) is the same before and after the
\* call.
C22_AccountIsolation ==
    [][/\ \A v \in Accounts :
            v # last'.caller => MappingGet(deposits', v) = MappingGet(deposits, v)
       /\ last'.op = "emergency_unlock" => deposits' = deposits]_vars

\* C22 witness: after an emergency_unlock, Alice has just deposited or claimed
\* while Bob holds a record whose unlock time is the current time.
C22_Witness ==
    /\ last.op \in {"deposit_with_asset", "claim_cross_chain"}
    /\ last.caller = Alice /\ last.result = "Ok"
    /\ emergency_mode
    /\ HasRecord(Bob)
    /\ deposits[Bob].unlock_timestamp = now
    /\ now > 0

====
